---- MODULE Spec2Model ----
(***************************************************************************)
(* get_intersight_server_sel.py: the run of main() as a state machine.     *)
(* One action per external call of the script (server listing, settings   *)
(* lookup, trigger update, log lookup, the fixed wait, download request    *)
(* plus file write, final message).  The outcome of every external call    *)
(* (raises / returns a value) is an input of its action.                   *)
(***************************************************************************)
EXTENDS Integers, Sequences, FiniteSets, TLC

VARIABLES
    pc,            \* position of main(): "start", "settings", "trigger", "logs",
                   \* "sleep", "download", "finish", "done", "crashed"
    i,             \* index of the `server` of the running for-loop (1-based)
    servers,       \* servers_moid_list: the sequence of server dicts
    listIsNone,    \* get_server_list returned None (it printed the error)
    passed,        \* the server dicts download_sel was called with, in order
    platform,      \* the results of the server-listing call, as returned
    exc,           \* the exception that escaped main(), "none" if none
    folderExists,  \* os.path.exists(folder_path)
    mkdirs,        \* number of os.makedirs calls that created the folder
    files,         \* file path -> text content of the files written by the run
    calls,         \* the external calls made so far, in order
    out            \* the lines printed on the console so far, in order

vars == <<pc, i, servers, listIsNone, passed, platform, exc, folderExists, mkdirs,
          files, calls, out>>

----------------------------------------------------------------------------
(* Bounds and input sets *)

MaxServers == 2

Moids == {"srvA", "srvB", "srvC"}
Modes == {"UCSM", "IntersightStandalone"}

\* what results[0] of the endpoint-log query can be: a log moid and a file name
EndPointLogs ==
    { [moid |-> "X", file_name |-> "sel.txt"],
      [moid |-> "Y", file_name |-> "sel.txt"],
      [moid |-> "Y", file_name |-> "sel_y.txt"] }

\* response.content of the download request, as bytes:
\* "h" then e-acute (two bytes, one character); a byte that is no UTF-8
Bodies == { <<104, 195, 169>>, <<255>> }

None == "None"

\* the possible results of get_compute_physical_summary_list(): servers with
\* distinct moids, each with a management mode
RECURSIVE SummaryLists(_)
SummaryLists(n) ==
    IF n = 0 THEN { <<>> }
    ELSE LET shorter == SummaryLists(n - 1)
         IN  shorter \cup
             { Append(l, [moid |-> m, management_mode |-> mm]) :
                 l \in { s \in shorter : Len(s) = n - 1 },
                 m \in Moids, mm \in Modes }

DistinctMoids(l) ==
    \A p, q \in DOMAIN l : p # q => l[p].moid # l[q].moid

PlatformLists == { l \in SummaryLists(MaxServers) : DistinctMoids(l) }

----------------------------------------------------------------------------
(* Pure helpers *)

Has(d, key) == key \in DOMAIN d

\* d[key] = value on a dict
SetItem(d, key, value) == (key :> value) @@ d

\* get_server_list without the test of line 75: every server is kept
ServersMoidList_NoFilter(results) ==
    [k \in DOMAIN results |-> [moid |-> results[k].moid]]

\* get_server_list, lines 73-77: one {"moid": ...} per server whose
\* management mode is not "UCSM", appended in the order of the results
RECURSIVE ServersMoidList(_)
ServersMoidList(results) ==
    IF results = <<>> THEN <<>>
    ELSE LET front == SubSeq(results, 1, Len(results) - 1)
             server == results[Len(results)]
         IN  IF server.management_mode \notin {"UCSM"}
             THEN Append(ServersMoidList(front), [moid |-> server.moid])
             ELSE ServersMoidList(front)

\* the settings resource the platform holds for a server
SettingMoidOf(server_moid) == <<"setting", server_moid>>

\* bytes.decode("utf-8") for one- and two-byte sequences:
\* [ok |-> TRUE, text |-> code points] or [ok |-> FALSE] (UnicodeDecodeError)
RECURSIVE Utf8Decode(_)
Utf8Decode(b) ==
    IF b = <<>> THEN [ok |-> TRUE, text |-> <<>>]
    ELSE IF b[1] < 128
    THEN LET rest == Utf8Decode(Tail(b))
         IN  IF rest.ok THEN [ok |-> TRUE, text |-> <<b[1]>> \o rest.text]
             ELSE [ok |-> FALSE]
    ELSE IF b[1] >= 194 /\ b[1] <= 223 /\ Len(b) >= 2 /\ b[2] >= 128 /\ b[2] <= 191
    THEN LET rest == Utf8Decode(Tail(Tail(b)))
         IN  IF rest.ok
             THEN [ok |-> TRUE,
                   text |-> <<(b[1] - 192) * 64 + (b[2] - 128)>> \o rest.text]
             ELSE [ok |-> FALSE]
    ELSE [ok |-> FALSE]

\* os.path.join on paths kept as sequences of components
PathJoin(path, name) == Append(path, name)

Cwd == <<"cwd">>
FolderName == "SEL_logs"
FolderPath == PathJoin(Cwd, FolderName)

\* download_sel naming the file after the log moid
FilePath_FromMoid(server) == PathJoin(FolderPath, server["endpoint_moid"])

\* download_sel line 180
FilePath(server) == PathJoin(FolderPath, server["endpoint_filename"])

\* download_sel lines 172-173: the moid at the end of the request URL
RequestUrl(server) == <<"download", "equipment/LogDownloads", server["endpoint_moid"]>>

\* get_endpoint_logs storing the moid alone
EndpointFields_MoidOnly(server, first) ==
    SetItem(server, "endpoint_moid", first.moid)

\* get_endpoint_logs lines 124-128: both fields are read, then both are stored
EndpointFields(server, first) ==
    SetItem(SetItem(server, "endpoint_moid", first.moid),
            "endpoint_filename", first.file_name)

\* main without the test of line 212
HasEndpoint_Always(server) == TRUE

\* main line 212
HasEndpoint(server) == Has(server, "endpoint_moid")

\* main downloading at the end of the first loop, without the wait
AfterLogs_NoWait(k, n) == IF k < n THEN "settings" ELSE "download"

\* main lines 201-210: where main goes after the body of the first loop
AfterLogs(k, n) == IF k < n THEN "settings" ELSE "sleep"

\* one external call: the operation, the index of the server it is made for,
\* whether it returned, the moid it carried or returned, the body it returned
\* (and, for a download, whether os.makedirs, open and file.write would raise)
Call(op, k, ok, val) ==
    [op |-> op, idx |-> k, ok |-> ok, val |-> val, body |-> <<>>, fs |-> <<>>]
GetCall(k, ok, val, body, fs) ==
    [op |-> "get", idx |-> k, ok |-> ok, val |-> val, body |-> body, fs |-> fs]
Line(kind, moid) == [kind |-> kind, moid |-> moid]

----------------------------------------------------------------------------
Init ==
    /\ pc = "start"
    /\ i = 0
    /\ servers = <<>>
    /\ listIsNone = FALSE
    /\ passed = <<>>
    /\ platform = <<>>
    /\ exc = "none"
    /\ folderExists \in BOOLEAN
    /\ mkdirs = 0
    /\ files = <<>>
    /\ calls = <<>>
    /\ out = <<>>

\* main lines 196-201 with get_server_list: the listing call raises, or
\* returns its results
ListRaises ==
    /\ pc = "start"
    /\ calls' = Append(calls, Call("list", 0, FALSE, None))
    /\ out' = out \o <<Line("warning", None), Line("error_list", None)>>
    /\ listIsNone' = TRUE
    \* for server in None: TypeError, outside any try
    /\ pc' = "crashed"
    /\ exc' = "TypeError"
    /\ UNCHANGED <<i, servers, passed, platform, folderExists, mkdirs, files>>

ListReturns ==
    /\ pc = "start"
    /\ \E results \in PlatformLists :
        /\ platform' = results
        /\ servers' = ServersMoidList(results)
        /\ calls' = Append(calls, Call("list", 0, TRUE, None))
        /\ out' = Append(out, Line("warning", None))
        /\ IF ServersMoidList(results) = <<>>
           THEN pc' = "sleep" /\ i' = 0
           ELSE pc' = "settings" /\ i' = 1
    /\ UNCHANGED <<listIsNone, passed, exc, folderExists, mkdirs, files>>

\* get_server_settings: the query raises or has no result (IndexError),
\* or results[0].moid is stored
GetServerSettings ==
    /\ pc = "settings"
    /\ LET server == servers[i] IN
       \E ok \in BOOLEAN :
        /\ calls' = Append(calls, Call("settings", i, ok, None))
        /\ IF ok
           THEN /\ servers' = [servers EXCEPT ![i] =
                       SetItem(server, "setting_moid", SettingMoidOf(server["moid"]))]
                /\ out' = out
           ELSE /\ servers' = servers
                /\ out' = Append(out, Line("error_settings", server["moid"]))
    /\ pc' = "trigger"
    /\ UNCHANGED <<i, listIsNone, passed, platform, exc, folderExists, mkdirs, files>>

\* set_collect_sel: server["setting_moid"] is read outside the try
SetCollectSel ==
    /\ pc = "trigger"
    /\ LET server == servers[i] IN
       IF ~Has(server, "setting_moid")
       THEN /\ pc' = "crashed"
            /\ exc' = "KeyError"
            /\ UNCHANGED <<calls, out>>
       ELSE \E ok \in BOOLEAN :
            /\ calls' = Append(calls, Call("update", i, ok, server["setting_moid"]))
            /\ out' = IF ok THEN out
                      ELSE Append(out, Line("error_collect", server["moid"]))
            /\ pc' = "logs"
            /\ exc' = exc
    /\ UNCHANGED <<i, servers, listIsNone, passed, platform, folderExists, mkdirs, files>>

\* get_endpoint_logs, then the head of the first loop
GetEndpointLogsFails ==
    /\ pc = "logs"
    /\ calls' = Append(calls, Call("logs", i, FALSE, None))
    /\ out' = Append(out, Line("error_logs", servers[i]["moid"]))
    /\ pc' = AfterLogs(i, Len(servers))
    /\ i' = IF i < Len(servers) THEN i + 1 ELSE i
    /\ UNCHANGED <<servers, listIsNone, passed, platform, exc, folderExists, mkdirs, files>>

GetEndpointLogsReturns ==
    /\ pc = "logs"
    /\ \E first \in EndPointLogs :
        /\ calls' = Append(calls, Call("logs", i, TRUE, first.moid))
        /\ servers' = [servers EXCEPT ![i] = EndpointFields(@, first)]
    /\ pc' = AfterLogs(i, Len(servers))
    /\ i' = IF i < Len(servers) THEN i + 1 ELSE i
    /\ UNCHANGED <<listIsNone, passed, platform, exc, folderExists, mkdirs, files, out>>

\* main lines 209-211: the message, the fixed wait, the head of the second loop
Sleep ==
    /\ pc = "sleep"
    /\ out' = Append(out, Line("waiting", None))
    /\ calls' = Append(calls, Call("sleep", 0, TRUE, None))
    /\ IF servers = <<>>
       THEN pc' = "finish" /\ i' = i
       ELSE pc' = "download" /\ i' = 1
    /\ UNCHANGED <<servers, listIsNone, passed, platform, exc, folderExists, mkdirs, files>>

\* main lines 211-212: a server without 'endpoint_moid' is passed over
SkipDownload ==
    /\ pc = "download"
    /\ ~HasEndpoint(servers[i])
    /\ IF i < Len(servers)
       THEN pc' = "download" /\ i' = i + 1
       ELSE pc' = "finish" /\ i' = i
    /\ UNCHANGED <<servers, listIsNone, passed, platform, exc, folderExists, mkdirs,
                   files, calls, out>>

\* download_sel without the test of line 181
NeedsMakedirs_Always(exists) == TRUE

\* download_sel line 181: os.makedirs is called when the folder is not there
NeedsMakedirs(exists) == ~exists

\* download_sel lines 177-189 after a response: what the inner try leaves.
\* mk, op, wr: os.makedirs, open and file.write do not raise for a reason of
\* the file system (os.makedirs on an existing folder raises FileExistsError)
SaveSel(server, content, mk, op, wr) ==
    LET path == FilePath(server)
        decoded == Utf8Decode(content)
        called == NeedsMakedirs(folderExists)
        created == called /\ ~folderExists /\ mk
        there == folderExists \/ created
        note == IF created THEN <<Line("folder_created", None)>> ELSE <<>>
        failed == <<Line("error_save", None)>>
    IN  IF called /\ ~created
        THEN [exists |-> folderExists, made |-> 0, files |-> files, out |-> failed]
        ELSE IF ~there \/ ~op
        THEN [exists |-> there, made |-> IF created THEN 1 ELSE 0,
              files |-> files, out |-> note \o failed]
        ELSE IF ~decoded.ok \/ ~wr
        \* open(file_path, "w") has already created or emptied the file
        THEN [exists |-> there, made |-> IF created THEN 1 ELSE 0,
              files |-> SetItem(files, path, <<>>), out |-> note \o failed]
        ELSE [exists |-> there, made |-> IF created THEN 1 ELSE 0,
              files |-> SetItem(files, path, decoded.text),
              out |-> note \o <<Line("file_created", server["endpoint_filename"])>>]

\* what requests.get can do: raise, or return a response with a body
Responses ==
    { [ok |-> FALSE, content |-> <<>>] } \cup
    { [ok |-> TRUE, content |-> b] : b \in Bodies }

\* main lines 212-214 with download_sel (lines 164-191), then the head of
\* the second loop.  The two keys are read outside any try.  IntersightAuth
\* (lines 167-170) loads the key file that has signed the calls of the first
\* loop, and is taken to return.
DownloadSel ==
    /\ pc = "download"
    /\ HasEndpoint(servers[i])
    /\ passed' = Append(passed, servers[i])
    /\ IF ~(Has(servers[i], "endpoint_moid") /\ Has(servers[i], "endpoint_filename"))
       THEN /\ pc' = "crashed"
            /\ exc' = "KeyError"
            /\ UNCHANGED <<i, folderExists, mkdirs, files, calls, out>>
       ELSE /\ \E resp \in Responses, mk, op, wr \in BOOLEAN :
                \* one choice for the outcomes that are not consulted
                /\ (~resp.ok \/ folderExists => mk)
                /\ (~resp.ok \/ ~(folderExists \/ mk) => op)
                /\ (~resp.ok \/ ~op \/ ~Utf8Decode(resp.content).ok => wr)
                /\ calls' = Append(calls,
                       GetCall(i, resp.ok, RequestUrl(servers[i])[3], resp.content,
                               IF resp.ok THEN <<mk, op, wr>> ELSE <<>>))
                /\ IF ~resp.ok
                   THEN /\ out' = Append(out, Line("error_request", None))
                        /\ UNCHANGED <<folderExists, mkdirs, files>>
                   ELSE LET saved == SaveSel(servers[i], resp.content, mk, op, wr) IN
                        /\ folderExists' = saved.exists
                        /\ mkdirs' = mkdirs + saved.made
                        /\ files' = saved.files
                        /\ out' = out \o saved.out
            /\ IF i < Len(servers)
               THEN pc' = "download" /\ i' = i + 1
               ELSE pc' = "finish" /\ i' = i
            /\ exc' = exc
    /\ UNCHANGED <<servers, listIsNone, platform>>

\* main line 215
Finish ==
    /\ pc = "finish"
    /\ out' = Append(out, Line("finished", None))
    /\ pc' = "done"
    /\ UNCHANGED <<i, servers, listIsNone, passed, platform, exc, folderExists, mkdirs,
                   files, calls>>

Next ==
    \/ ListRaises
    \/ ListReturns
    \/ GetServerSettings
    \/ SetCollectSel
    \/ GetEndpointLogsFails
    \/ GetEndpointLogsReturns
    \/ Sleep
    \/ SkipDownload
    \/ DownloadSel
    \/ Finish

Spec == Init /\ [][Next]_vars

----------------------------------------------------------------------------
(* Vocabulary of the properties *)

Terminated == pc \in {"done", "crashed"}

\* positions in `calls` of the calls of an operation made for server k
CallsOf(op, k) == { p \in DOMAIN calls : calls[p].op = op /\ calls[p].idx = k }

SettingsFailed(k) == \E p \in CallsOf("settings", k) : ~calls[p].ok
TriggerFailed(k) == \E p \in CallsOf("update", k) : ~calls[p].ok
NoFailedCall(k) == \A p \in DOMAIN calls : calls[p].idx = k => calls[p].ok
Triggered(k) == CallsOf("update", k) # {}
Resolved(k) == CallsOf("logs", k) # {}
Requested(k) == CallsOf("get", k) # {}

ErrorKinds ==
    {"error_list", "error_settings", "error_collect", "error_logs",
     "error_request", "error_save"}
ErrorLines == { p \in DOMAIN out : out[p].kind \in ErrorKinds }

\* the file system answered every question of the run without raising
NoSaveError == \A p \in DOMAIN out : out[p].kind # "error_save"

StagesOfPhaseOne == {"settings", "update", "logs"}

----------------------------------------------------------------------------
(* C1: when the settings lookup of a server A of the list raises, no       *)
(* exception escapes main(), A gets no trigger and no download, and every  *)
(* other server B whose calls all succeed is triggered, resolved and       *)
(* downloaded, whatever the order of A and B.                              *)
C1_SettingsFailureSkipsOnlyThatServer ==
    Terminated =>
        \A a \in DOMAIN servers :
            SettingsFailed(a) =>
                /\ exc = "none"
                /\ ~Triggered(a)
                /\ ~Requested(a)
                /\ \A b \in DOMAIN servers :
                       (b # a /\ NoFailedCall(b)) =>
                           Triggered(b) /\ Resolved(b) /\ Requested(b)

(* C2: whatever external call fails, a run that has ended has printed the  *)
(* final 'Finished downloading SEL files.' line as its last line, also     *)
(* when the server-listing call failed.                                    *)
C2_RunEndsWithFinalMessage ==
    Terminated => (out # <<>> /\ out[Len(out)].kind = "finished")

(* C4: a run over exactly two servers, one whose calls all succeed and one *)
(* whose settings call raises, ends normally with exactly one file written *)
(* and exactly one error line, the one of the failing server.              *)
C4_TwoServersOneFileOneErrorLine ==
    (/\ Terminated
     /\ Len(servers) = 2
     /\ NoSaveError
     /\ \E a, b \in DOMAIN servers :
            a # b /\ SettingsFailed(a) /\ NoFailedCall(b)) =>
        /\ pc = "done"
        /\ exc = "none"
        /\ Cardinality(DOMAIN files) = 1
        /\ Cardinality(ErrorLines) = 1
        /\ \A p \in ErrorLines : \E a \in DOMAIN servers :
               SettingsFailed(a) /\ out[p].moid = servers[a]["moid"]

(* C8: a failed stage of a server is the last call made for that server    *)
(* (in particular no log lookup and no download after a failed trigger),   *)
(* and the other servers of the list are still processed: a run that has   *)
(* ended has made the settings lookup of every server of the list.         *)
C8_FailureHaltsThatServerOnly ==
    /\ \A p, q \in DOMAIN calls :
           (/\ calls[p].op \in StagesOfPhaseOne \cup {"get"}
            /\ ~calls[p].ok
            /\ calls[q].idx = calls[p].idx) => q <= p
    /\ (Terminated /\ ~listIsNone) =>
           \A k \in DOMAIN servers : CallsOf("settings", k) # {}

----------------------------------------------------------------------------
(* C3: download_sel is only ever called with a server record that holds    *)
(* 'endpoint_moid', and only for a server whose log lookup returned a      *)
(* result; a server whose log lookup failed gets no download request.      *)
C3_DownloaderOnlyGetsResolvedRecords ==
    /\ \A p \in DOMAIN passed : "endpoint_moid" \in DOMAIN passed[p]
    /\ \A k \in DOMAIN servers :
           (\E p \in CallsOf("logs", k) : ~calls[p].ok) => ~Requested(k)
    /\ Len(passed) = Cardinality({ p \in DOMAIN calls : calls[p].op = "get" })

\* a finished run that skipped a server whose log lookup failed and
\* downloaded another one
C3_Witness ==
    /\ pc = "done"
    /\ passed # <<>>
    /\ \E k \in DOMAIN servers :
           /\ \E p \in CallsOf("logs", k) : ~calls[p].ok
           /\ "endpoint_moid" \notin DOMAIN servers[k]

NotLegacy(summary) == summary.management_mode # "UCSM"

(* C5: after a listing that returned, servers_moid_list holds, in the      *)
(* platform's order, one record per server whose management mode is not    *)
(* "UCSM" and none for a "UCSM" server; right after the listing each       *)
(* record holds the key "moid" only.                                       *)
C5_InventoryIsTheNonLegacyServersInOrder ==
    (pc # "start" /\ ~listIsNone) =>
        LET kept == SelectSeq(platform, NotLegacy) IN
        /\ Len(servers) = Len(kept)
        /\ \A k \in DOMAIN servers : servers[k]["moid"] = kept[k].moid
        /\ (pc = "settings" /\ i = 1) =>
               \A k \in DOMAIN servers : DOMAIN servers[k] = {"moid"}

\* a listing of one legacy and one other server, just returned
C5_Witness ==
    /\ pc = "settings" /\ i = 1
    /\ Len(platform) = 2
    /\ Len(servers) = 1
    /\ \E p \in DOMAIN platform : platform[p].management_mode = "UCSM"

----------------------------------------------------------------------------
(* Vocabulary of the download steps *)

\* this step is a download_sel call whose request returned a response
RequestReturned ==
    /\ Len(calls') = Len(calls) + 1
    /\ calls'[Len(calls')].op = "get"
    /\ calls'[Len(calls')].ok

TheCall == calls'[Len(calls')]

\* ... and os.makedirs (if called), open, decode and write did not raise
SaveSucceeded ==
    /\ TheCall.fs[2] /\ TheCall.fs[3]
    /\ Utf8Decode(TheCall.body).ok
    /\ out'[Len(out')].kind = "file_created"

LastLineIsSaveError == out'[Len(out')].kind = "error_save"

\* the place of the file named `name` in the output folder
InFolder(name) == <<"cwd", "SEL_logs", name>>

(* C6 as stated: the folder is created at most once; a returned request    *)
(* made while the folder is absent creates it; a call made while the       *)
(* folder exists does not fail and writes its file.                        *)
C6_FolderCreatedExactlyOnce ==
    [][ /\ mkdirs' <= 1
        /\ RequestReturned =>
              /\ ~folderExists => (folderExists' /\ mkdirs' = 1)
              /\ folderExists =>
                    /\ mkdirs' = mkdirs
                    /\ InFolder(servers[i]["endpoint_filename"]) \in DOMAIN files'
                    /\ out'[Len(out')].kind = "file_created"
      ]_vars

(* C6 amended: the folder is created at most once and never removed; a     *)
(* returned request made while the folder is absent calls os.makedirs,     *)
(* which creates the folder (the one creation of the run) or raises, and   *)
(* then the call prints the save error and writes nothing; a call made     *)
(* while the folder exists does not call os.makedirs and writes its file   *)
(* unless open, decode or write raises (then it prints the save error).    *)
C6_FolderCreatedAtMostOnce ==
    [][ /\ mkdirs' <= 1
        /\ folderExists => folderExists'
        /\ RequestReturned =>
              /\ ~folderExists =>
                    \/ /\ TheCall.fs[1]
                       /\ folderExists' /\ mkdirs = 0 /\ mkdirs' = 1
                    \/ /\ ~TheCall.fs[1]
                       /\ ~folderExists' /\ mkdirs' = mkdirs
                       /\ files' = files /\ LastLineIsSaveError
              /\ folderExists =>
                    /\ mkdirs' = mkdirs
                    /\ IF TheCall.fs[2] /\ TheCall.fs[3] /\ Utf8Decode(TheCall.body).ok
                       THEN /\ InFolder(servers[i]["endpoint_filename"])
                                   \in DOMAIN files'
                            /\ out'[Len(out')].kind = "file_created"
                       ELSE LastLineIsSaveError
      ]_vars

\* the folder was absent, one call created it, and a later call found it
\* there: two files written, one creation
C6_Witness ==
    /\ pc = "done"
    /\ mkdirs = 1
    /\ Cardinality(DOMAIN files) = 2
    /\ Cardinality({ p \in DOMAIN out : out[p].kind = "file_created" }) = 2
    /\ Cardinality({ p \in DOMAIN out : out[p].kind = "folder_created" }) = 1

(* C7: a download_sel call for a record with log identifier X and file     *)
(* name F whose request and write succeed requests X and leaves, in the    *)
(* output folder, a file named F holding the decoded body of that          *)
(* response; it writes no other file (none named X).                       *)
C7_FileNamedAfterFilenameHoldsBody ==
    [][ (RequestReturned /\ SaveSucceeded) =>
            LET X == servers[i]["endpoint_moid"]
                F == servers[i]["endpoint_filename"]
            IN  /\ TheCall.val = X
                /\ InFolder(F) \in DOMAIN files'
                /\ files'[InFolder(F)] = Utf8Decode(TheCall.body).text
                /\ DOMAIN files' = DOMAIN files \cup {InFolder(F)}
                /\ \A path \in DOMAIN files : path # InFolder(F) =>
                       files'[path] = files[path]
      ]_vars

\* the body "h", 0xC3, 0xA9 requested for X lies decoded in sel.txt, and no
\* file is named X
C7_Witness ==
    /\ InFolder("sel.txt") \in DOMAIN files
    /\ files[InFolder("sel.txt")] = <<104, 233>>
    /\ InFolder("X") \notin DOMAIN files
    /\ \E p \in DOMAIN calls :
           calls[p].op = "get" /\ calls[p].ok /\ calls[p].val = "X"
                /\ calls[p].body = <<104, 195, 169>>

(* C9: every settings lookup, trigger and log lookup precedes the wait and *)
(* every download request follows it; when a download request is made the  *)
(* trigger of every server of the list has been attempted; the identifier  *)
(* requested is the one the log lookup of that server returned before the  *)
(* wait, and no log lookup is made after the wait.                         *)
C9_TriggerPhasePrecedesDownloadPhase ==
    LET waits == { p \in DOMAIN calls : calls[p].op = "sleep" } IN
    /\ Cardinality(waits) <= 1
    /\ \A w \in waits : \A k \in DOMAIN servers :
           \A op \in StagesOfPhaseOne : \E q \in CallsOf(op, k) : q < w
    /\ \A p \in DOMAIN calls :
           /\ calls[p].op \in StagesOfPhaseOne =>
                  \A w \in waits : p < w
           /\ calls[p].op = "get" =>
                  /\ \E w \in waits : w < p
                  /\ \A k \in DOMAIN servers :
                         \E q \in CallsOf("update", k) : q < p
                  /\ \E q \in CallsOf("logs", calls[p].idx) :
                         /\ q < p
                         /\ calls[q].ok
                         /\ calls[q].val = calls[p].val

\* two servers were triggered and resolved, then the wait, then two
\* download requests
C9_Witness ==
    /\ pc = "done"
    /\ Len(servers) = 2
    /\ \A k \in DOMAIN servers : Triggered(k) /\ Requested(k)

RecordWellFormed(server) ==
    /\ "moid" \in DOMAIN server
    /\ ("endpoint_moid" \in DOMAIN server) <=> ("endpoint_filename" \in DOMAIN server)
    /\ ("endpoint_moid" \in DOMAIN server) => ("setting_moid" \in DOMAIN server)

RecordsWellFormed == \A k \in DOMAIN servers : RecordWellFormed(servers[k])

(* C10: in every state each server record holding a log identifier also    *)
(* holds a log file name and a settings identifier, log identifier and     *)
(* file name are both present or both absent, and no step removes or       *)
(* changes a field a record holds.                                         *)
C10_RecordsFillLeftToRight ==
    [][ /\ RecordsWellFormed
        /\ RecordsWellFormed'
        /\ servers # <<>> =>
              /\ Len(servers') = Len(servers)
              /\ \A k \in DOMAIN servers :
                     \A key \in DOMAIN servers[k] :
                         /\ key \in DOMAIN servers'[k]
                         /\ servers'[k][key] = servers[k][key]
      ]_vars

\* a record with all four fields next to one without a log identifier
C10_Witness ==
    /\ pc = "done"
    /\ \E k \in DOMAIN servers :
           DOMAIN servers[k] = {"moid", "setting_moid", "endpoint_moid", "endpoint_filename"}
    /\ \E k \in DOMAIN servers :
           DOMAIN servers[k] = {"moid", "setting_moid"}

====
